---- MODULE Spec2Model ----
(***************************************************************************)
(* blueflower/core.py as a state machine.                                  *)
(*                                                                         *)
(* main() checks its arguments, installs the SIGINT handler, optionally    *)
(* verifies a hashes file (get_hashes), sizes the tree (init), walks it    *)
(* again dispatching every file (scan), tallies the log (count_secrets)    *)
(* and leaves through bye().  Every function is cut into the steps         *)
(* between which a signal can be delivered.                                *)
(*                                                                         *)
(* Collaborators that live outside core.py (key_derivation, type_file,     *)
(* do_file, the log_* sinks, the constants SKIP / ENCRYPTED / INFILENAME / *)
(* HASH_BYTES) are modelled by their interface only.                       *)
(***************************************************************************)
EXTENDS Integers, Sequences, FiniteSets, TLC

VARIABLES
    args,           \* [nargs, pathExists, hashesExists]: sys.argv[1:] and the filesystem
    artifact,       \* the hashes file: [regex, line2, lines]
    pwd,            \* what the operator types at getpass()
    tree,           \* the directory tree: [n, parent, name, files]
    pc,             \* position in main / get_hashes / init / scan
    status,         \* exit status, meaningful once pc is "exit" or "returned"
    handler,        \* TRUE once signal.signal(SIGINT, signal_handler) ran
    interrupted,    \* TRUE once signal_handler ran
    HASHES, HASH_KEY, HASH_REGEX,       \* module globals, lines 36-38
    fail, hashes, li,                   \* get_hashes locals
    log,            \* the log file, one record per line
    calls,          \* the calls made so far, in order (bookkeeping)
    todo, cur, fi,  \* os.walk: directories still to yield, the one yielded, file index
    total_size, count,                  \* init locals
    mcount,         \* main's `count`, the value init returned
    scanned, bar_blocksize, bar_count,  \* scan locals
    cells,          \* number of "=" written to stdout by scan
    step,           \* position inside scan's per-file body
    ftype, supported                    \* scan locals set by type_file

inputs   == <<args, artifact, pwd, tree>>
globals  == <<HASHES, HASH_KEY, HASH_REGEX>>
ghvars   == <<fail, hashes, li>>
walkvars == <<todo, cur, fi>>
initvars == <<total_size, count>>
scanvars == <<scanned, bar_blocksize, bar_count, cells, step, ftype, supported>>
vars == <<args, artifact, pwd, tree, pc, status, handler, interrupted,
          HASHES, HASH_KEY, HASH_REGEX, fail, hashes, li, log, calls,
          todo, cur, fi, total_size, count, mcount,
          scanned, bar_blocksize, bar_count, cells, step, ftype, supported>>

---------------------------------------------------------------------------
(* Bounds of the model *)

MaxLines == 2       \* hash lines in a hashes file
MaxDirs == 3        \* directories of a tree (the scan root included)
MaxFiles == 3       \* files of a one-directory tree
MaxBarExtra == 2    \* files beyond bar_width in the large one-directory trees

---------------------------------------------------------------------------
(* Constants of the program *)

bar_width == 32

\* imported from blueflower.utils.hashing; scaled down to one byte
HASH_BYTES == 1

\* imported from blueflower.constants
SKIP == {".git", ".svn"}
ENCRYPTED == {"gpg"}

\* what `return` without a value yields; init's counts are >= 0
None == -1

Units == <<"bytes", "KiB", "MiB", "GiB", "TiB">>

(* Byte sizes.  1024^5 does not fit a 32-bit integer of TLC, so a         *)
(* Byte sizes.  1024^5 does not fit a machine integer of the checker, so a *)
(* size is its little-endian base-1024 digits; Python's integers are       *)
(* unbounded, and so is the top digit here.                                *)

NDigits == Len(Units) + 1

Pow1024(k) == [i \in 1..NDigits |-> IF i = k + 1 THEN 1 ELSE 0]

SizeZero == [i \in 1..NDigits |-> 0]

RECURSIVE AddFrom(_, _, _, _)
AddFrom(a, b, i, carry) ==
    LET s == a[i] + b[i] + carry IN
    IF i = NDigits THEN <<s>>
    ELSE <<s % 1024>> \o AddFrom(a, b, i + 1, s \div 1024)

\* total_size += os.path.getsize(apath)
SizeAdd(a, b) == AddFrom(a, b, 1, 0)

\* readable < 1024
Less1024(r) == \A i \in 2..NDigits : r[i] = 0

\* readable /= 1024.0 ; the fraction never decides a comparison with 1024
Div1024(r) == [i \in 1..NDigits |-> IF i < NDigits THEN r[i + 1] ELSE 0]

\* the loop of lines 124-129: the index of the unit that is logged, 0 when
\* the loop runs off the end of the list
RECURSIVE HumanUnit(_, _)
HumanUnit(readable, k) ==
    IF k > Len(Units) THEN 0
    ELSE IF Less1024(readable) THEN k
    ELSE HumanUnit(Div1024(readable), k + 1)

\* the value init returns for a given total and count
InitResult(total, n) == IF HumanUnit(total, 1) = 0 THEN None ELSE n

---------------------------------------------------------------------------
(* Files.  A file is an index into this table: its name, what             *)
(* infilename.search(afile.lower()) matches in it ("" for no match), what  *)
(* type_file answers, whether do_file finds a secret in its content,       *)
(* whether os.path.getsize raises OSError, and its size.                   *)

Profiles == <<
    [name |-> "readme.txt",    infile |-> "",       ftype |-> "unknown", supported |-> FALSE,
     planted |-> FALSE, err |-> FALSE, size |-> Pow1024(0)],
    [name |-> "id_rsa",        infile |-> "id_rsa", ftype |-> "text",    supported |-> TRUE,
     planted |-> TRUE,  err |-> FALSE, size |-> Pow1024(1)],
    [name |-> "secrets.gpg",   infile |-> "",       ftype |-> "gpg",     supported |-> TRUE,
     planted |-> TRUE,  err |-> FALSE, size |-> Pow1024(2)],
    [name |-> "id_rsa.gpg",    infile |-> "id_rsa", ftype |-> "gpg",     supported |-> TRUE,
     planted |-> FALSE, err |-> TRUE,  size |-> SizeZero],
    [name |-> "passwords.bin", infile |-> "password", ftype |-> "unknown", supported |-> FALSE,
     planted |-> TRUE,  err |-> FALSE, size |-> Pow1024(3)],
    [name |-> "notes.txt",     infile |-> "",       ftype |-> "text",    supported |-> TRUE,
     planted |-> FALSE, err |-> FALSE, size |-> Pow1024(4)],
    [name |-> "disk.img",      infile |-> "",       ftype |-> "text",    supported |-> TRUE,
     planted |-> FALSE, err |-> FALSE, size |-> Pow1024(5)],
    [name |-> "old.gpg",       infile |-> "",       ftype |-> "gpg",     supported |-> FALSE,
     planted |-> FALSE, err |-> TRUE,  size |-> SizeZero] >>

NProfiles == Len(Profiles)

\* files NProfiles+1, NProfiles+2, ... are plain text files of one byte
File(f) ==
    IF f <= NProfiles THEN Profiles[f]
    ELSE [name |-> "bulk", infile |-> "", ftype |-> "text", supported |-> TRUE,
          planted |-> FALSE, err |-> FALSE, size |-> Pow1024(0)]

NoFile == <<0, 0>>

---------------------------------------------------------------------------
(* Trees.  Directory 1 is the scan root (it has a name like any other);    *)
(* parent[d] < d; siblings have distinct names; files[d] is the listing    *)
(* of d's files in the order os.walk yields them.                          *)

DirNames == SKIP \cup {"docs"}

Ids(n) == [i \in 1..n |-> i]

SiblingsDistinct(t) ==
    \A i, j \in 2..t.n : (i # j /\ t.parent[i] = t.parent[j]) => t.name[i] # t.name[j]

Parents(n) == {p \in [1..n -> 0..(n - 1)] :
                  p[1] = 0 /\ \A i \in 2..n : p[i] \in 1..(i - 1)}

\* every shape and naming of up to maxDirs directories, each directory
\* empty or holding notes.txt
ShapeTrees(maxDirs) ==
    {t \in UNION {{[n |-> n, parent |-> p, name |-> nm, files |-> fs] :
                      p \in Parents(n), nm \in [1..n -> DirNames],
                      fs \in [1..n -> {<<>>, <<6>>}]} : n \in 1..maxDirs} :
        SiblingsDistinct(t)}

RECURSIVE DistinctSeqs(_, _)
DistinctSeqs(S, k) ==
    IF k = 0 THEN {<<>>}
    ELSE LET shorter == DistinctSeqs(S, k - 1) IN
         shorter \cup {Append(s, x) : s \in {q \in shorter : Len(q) = k - 1},
                                      x \in S}

NoRepeat(s) == \A i, j \in 1..Len(s) : i # j => s[i] # s[j]

Flat(fs) == [n |-> 1, parent |-> <<0>>, name |-> <<"docs">>, files |-> <<fs>>]

\* one directory holding up to maxFiles of the table's files, in any order
FlatTrees(maxFiles) ==
    {Flat(fs) : fs \in {s \in DistinctSeqs(1..NProfiles, maxFiles) : NoRepeat(s)}}

Bulk(k) == [i \in 1..k |-> NProfiles + i]

\* one directory holding about bar_width plain files, alone or after an
\* unsupported or an encrypted one
BarTrees(extra) ==
    {Flat(pre \o Bulk(k)) : pre \in {<<>>, <<1>>, <<3>>},
                            k \in (bar_width - 1)..(bar_width + extra)}

---------------------------------------------------------------------------
(* The hashes file.  line2 is the second line split at its commas; a hash  *)
(* line is the sequence of its characters after strip().                   *)

HexDigits == {"0"}
Chars == {"0", "x", "-"}

RECURSIVE Strings(_)
Strings(k) ==
    IF k = 0 THEN {<<>>}
    ELSE LET shorter == Strings(k - 1) IN
         shorter \cup {Append(s, c) : s \in {q \in shorter : Len(q) = k - 1},
                                      c \in Chars}

RECURSIVE LineLists(_, _)
LineLists(L, k) ==
    IF k = 0 THEN {<<>>}
    ELSE LET shorter == LineLists(L, k - 1) IN
         shorter \cup {Append(s, x) : s \in {q \in shorter : Len(q) = k - 1},
                                      x \in L}

Drop(s, k) == SubSeq(s, k + 1, Len(s))

\* int(ahash, 16) does not raise ValueError: an optional sign, an optional
\* 0x that a digit follows, then hex digits only and at least one
IntParses(s) ==
    LET unsigned == IF Len(s) > 0 /\ s[1] \in {"-", "+"} THEN Drop(s, 1) ELSE s
        digits == IF Len(unsigned) > 2 /\ unsigned[1] = "0" /\ unsigned[2] = "x"
                     /\ unsigned[3] \in HexDigits
                  THEN Drop(unsigned, 2) ELSE unsigned
    IN  Len(digits) > 0 /\ \A i \in 1..Len(digits) : digits[i] \in HexDigits

\* re.compile(regex) does not raise re.error
Compiles(regex) == regex \in {"", "a+"}

\* blueflower.utils.hashing.key_derivation: a deterministic key (never the
\* integer 0) and verifier
key_derivation(p, salt) == <<10 * p + salt, p + salt, salt>>

Passwords == {1, 2}

---------------------------------------------------------------------------
(* Log records *)

Rec(cat, msg, arg, fid, n) == [cat |-> cat, msg |-> msg, arg |-> arg, fid |-> fid, n |-> n]
Comment(msg) == Rec("comment", msg, "", NoFile, 0)
Call(fn, fid) == [fn |-> fn, fid |-> fid]

Range(s) == {s[i] : i \in 1..Len(s)}

\* bye(): print the courtesy line, sys.exit(1)
Bye == pc' = "exit" /\ status' = 1

---------------------------------------------------------------------------
(* get_hashes(hashesfile), lines 41-101 *)

\* lines 46-55: the password, the regex line, the salt/verifier line
GH_Start ==
    /\ pc = "get_hashes"
    /\ calls' = Append(calls, Call("get_hashes", NoFile))
    /\ IF Len(artifact.line2) # 2
       THEN /\ log' = log \o <<Comment("verifying hashes file"),
                                Comment("failed to extract verifier and salt")>>
            /\ Bye
       ELSE /\ log' = Append(log, Comment("verifying hashes file"))
            /\ pc' = "gh_verifier"
            /\ UNCHANGED status
    /\ UNCHANGED <<inputs, handler, interrupted, globals, ghvars, walkvars,
                   initvars, mcount, scanvars>>

\* lines 57-64: fail = False, then the verifier
GH_Verifier ==
    /\ pc = "gh_verifier"
    /\ LET kd == key_derivation(pwd, artifact.line2[1]) IN
       IF artifact.line2[2] # kd[2]
       THEN /\ log' = Append(log, Comment("verifier does not match"))
            /\ fail' = TRUE
            /\ UNCHANGED <<HASH_KEY, HASH_REGEX>>
       ELSE /\ HASH_KEY' = kd[1]
            /\ HASH_REGEX' = artifact.regex
            /\ fail' = FALSE
            /\ UNCHANGED log
    /\ pc' = "gh_regex"
    /\ UNCHANGED <<inputs, status, handler, interrupted, HASHES, hashes, li, calls,
                   walkvars, initvars, mcount, scanvars>>

\* GH_Regex as a fail-fast validation would do it: the regex is not looked
\* at once the verifier did not match
GH_RegexFailFast ==
    /\ pc = "gh_regex"
    /\ IF ~fail /\ ~Compiles(artifact.regex)
       THEN /\ log' = Append(log, Comment("invalid regex"))
            /\ fail' = TRUE
       ELSE UNCHANGED <<log, fail>>
    /\ hashes' = <<>>
    /\ li' = 1
    /\ pc' = "gh_lines"
    /\ UNCHANGED <<inputs, status, handler, interrupted, globals, calls,
                   walkvars, initvars, mcount, scanvars>>

\* lines 66-73: the regex must compile; hashes = []
GH_Regex ==
    /\ pc = "gh_regex"
    /\ IF ~Compiles(artifact.regex)
       THEN /\ log' = Append(log, Comment("invalid regex"))
            /\ fail' = TRUE
       ELSE UNCHANGED <<log, fail>>
    /\ hashes' = <<>>
    /\ li' = 1
    /\ pc' = "gh_lines"
    /\ UNCHANGED <<inputs, status, handler, interrupted, globals, calls,
                   walkvars, initvars, mcount, scanvars>>

\* lines 77-87: what is logged for hash line number i
LineReasons(ahash, i) ==
    (IF Len(ahash) # 2 * HASH_BYTES
     THEN <<Rec("comment", "invalid hash length", "", NoFile, i)>> ELSE <<>>)
    \o
    (IF ~IntParses(ahash)
     THEN <<Rec("comment", "invalid hash value", "", NoFile, i)>> ELSE <<>>)

\* lines 74-90: one iteration of `for line in fin`
GH_Line ==
    /\ pc = "gh_lines"
    /\ li <= Len(artifact.lines)
    /\ LET ahash == artifact.lines[li]
           reasons == LineReasons(ahash, li)
           failed == fail \/ reasons # <<>>
       IN  /\ log' = log \o reasons
           /\ fail' = failed
           /\ hashes' = IF ~failed THEN Append(hashes, ahash) ELSE hashes
    /\ li' = li + 1
    /\ UNCHANGED <<inputs, pc, status, handler, interrupted, globals, calls,
                   walkvars, initvars, mcount, scanvars>>

\* GH_Outcome without the check of `fail`
GH_OutcomeIgnoreFail(failed) == "init"

\* lines 92-95: where get_hashes goes once every line is read
GH_Outcome(failed) == IF failed THEN "exit" ELSE "init"

\* lines 92-101: abort, or record the hashes and return to main
GH_Finish ==
    /\ pc = "gh_lines"
    /\ li > Len(artifact.lines)
    /\ IF GH_Outcome(fail) = "exit"
       THEN /\ log' = Append(log, Comment("hashes file failed to verify, aborting..."))
            /\ Bye
            /\ UNCHANGED HASHES
       ELSE /\ HASHES' = Range(hashes)
            /\ log' = log \o <<Rec("comment", "%d hashes read, %d uniques", "", NoFile,
                                     Len(hashes)),
                                Rec("comment", "using regex %s", HASH_REGEX, NoFile, 0),
                                Comment("hashes file successfully verified")>>
            /\ pc' = "init"
            /\ UNCHANGED status
    /\ UNCHANGED <<inputs, handler, interrupted, HASH_KEY, HASH_REGEX, ghvars, calls,
                   walkvars, initvars, mcount, scanvars>>

---------------------------------------------------------------------------
(* os.walk(path) with the pruning of lines 111-114 and 149-152 *)

FilesOf(d) == IF d = 0 THEN <<>> ELSE tree.files[d]

\* the sub-directories os.walk lists for directory d
Children(d) == SelectSeq(Ids(tree.n), LAMBDA i : tree.parent[i] = d)

\* RemoveSkipped without the pruning
RemoveSkippedNothing(dirs) == dirs

\* for skip in SKIP: if skip in dirs: dirs.remove(skip)
RemoveSkipped(dirs) == SelectSeq(dirs, LAMBDA i : tree.name[i] \notin SKIP)

\* the next (root, dirs, files) of the generator: the first pending
\* directory is yielded and its pruned sub-directories are walked before
\* the directories that were already pending
WalkDir ==
    /\ fi > Len(FilesOf(cur))
    /\ todo # <<>>
    /\ cur' = Head(todo)
    /\ todo' = RemoveSkipped(Children(Head(todo))) \o Tail(todo)
    /\ fi' = 1

WalkDone == fi > Len(FilesOf(cur)) /\ todo = <<>>

---------------------------------------------------------------------------
(* init(path), lines 104-129 *)

\* lines 106-108
InitStart ==
    /\ pc = "init"
    /\ calls' = Append(calls, Call("init", NoFile))
    /\ log' = Append(log, Comment("initialization..."))
    /\ total_size' = SizeZero
    /\ count' = 0
    /\ todo' = <<1>>
    /\ cur' = 0
    /\ fi' = 1
    /\ pc' = "init_walk"
    /\ UNCHANGED <<inputs, status, handler, interrupted, globals, ghvars, mcount, scanvars>>

\* lines 109-114
InitWalkDir ==
    /\ pc = "init_walk"
    /\ WalkDir
    /\ UNCHANGED <<inputs, pc, status, handler, interrupted, globals, ghvars, log, calls,
                   initvars, mcount, scanvars>>

\* lines 116-122: one iteration of `for afile in files`
InitFile ==
    /\ pc = "init_walk"
    /\ fi <= Len(FilesOf(cur))
    /\ LET f == FilesOf(cur)[fi] IN
       /\ count' = count + 1
       /\ calls' = Append(calls, Call("getsize", <<cur, f>>))
       /\ IF File(f).err
          THEN /\ log' = Append(log, Rec("error", "OSError", File(f).name, <<cur, f>>, 0))
               /\ UNCHANGED total_size
          ELSE /\ total_size' = SizeAdd(total_size, File(f).size)
               /\ UNCHANGED log
    /\ fi' = fi + 1
    /\ UNCHANGED <<inputs, pc, status, handler, interrupted, globals, ghvars, todo, cur,
                   mcount, scanvars>>

\* lines 124-129, and main's `count = init(path)` of line 252
InitReturn ==
    /\ pc = "init_walk"
    /\ WalkDone
    /\ LET u == HumanUnit(total_size, 1) IN
       log' = IF u # 0
              THEN Append(log, Rec("comment", "%d files, %3.1f %s", Units[u], NoFile, count))
              ELSE log
    /\ mcount' = InitResult(total_size, count)
    /\ pc' = "scan"
    /\ UNCHANGED <<inputs, status, handler, interrupted, globals, ghvars, calls, walkvars,
                   initvars, scanvars>>

---------------------------------------------------------------------------
(* scan(path, count), lines 132-178 *)

\* lines 134-145; count/bar_width raises TypeError when count is None
ScanStart ==
    /\ pc = "scan"
    /\ calls' = Append(calls, Call("scan", NoFile))
    /\ log' = Append(log, Comment("scanning files..."))
    /\ scanned' = 0
    /\ IF mcount = None
       THEN /\ pc' = "crashed"
            /\ status' = 1
            /\ UNCHANGED <<bar_blocksize, bar_count, cells, walkvars>>
       ELSE /\ bar_blocksize' = mcount \div bar_width
            /\ bar_count' = 0
            /\ cells' = 0
            /\ todo' = <<1>>
            /\ cur' = 0
            /\ fi' = 1
            /\ pc' = "scan_walk"
            /\ UNCHANGED status
    /\ UNCHANGED <<inputs, handler, interrupted, globals, ghvars, initvars, mcount,
                   step, ftype, supported>>

\* lines 147-152
ScanWalkDir ==
    /\ pc = "scan_walk"
    /\ step = "idle"
    /\ WalkDir
    /\ UNCHANGED <<inputs, pc, status, handler, interrupted, globals, ghvars, log, calls,
                   initvars, mcount, scanvars>>

\* lines 154-159: the file name against INFILENAME
ScanFilename ==
    /\ pc = "scan_walk"
    /\ step = "idle"
    /\ fi <= Len(FilesOf(cur))
    /\ LET f == FilesOf(cur)[fi] IN
       /\ calls' = Append(calls, Call("search", <<cur, f>>))
       /\ log' = IF File(f).infile # ""
                 THEN Append(log, Rec("secret", "filename", File(f).infile, <<cur, f>>, 0))
                 ELSE log
    /\ step' = "classify"
    /\ UNCHANGED <<inputs, pc, status, handler, interrupted, globals, ghvars, walkvars,
                   initvars, mcount, scanned, bar_blocksize, bar_count, cells,
                   ftype, supported>>

\* line 161: (ftype, supported) = type_file(abspath)
ScanClassify ==
    /\ pc = "scan_walk"
    /\ step = "classify"
    /\ LET f == FilesOf(cur)[fi] IN
       /\ calls' = Append(calls, Call("type_file", <<cur, f>>))
       /\ ftype' = File(f).ftype
       /\ supported' = File(f).supported
    /\ step' = "dispatch"
    /\ UNCHANGED <<inputs, pc, status, handler, interrupted, globals, ghvars, log, walkvars,
                   initvars, mcount, scanned, bar_blocksize, bar_count, cells>>

\* ScanBranch without the test of ENCRYPTED
ScanBranchNoEncrypted(t, sup) == IF ~sup THEN "skip" ELSE "process"

\* ScanBranch without the test of `supported`
ScanBranchNoSupported(t, sup) == IF t \in ENCRYPTED THEN "encrypted" ELSE "process"

\* lines 163-167: which branch a classification takes
ScanBranch(t, sup) ==
    IF ~sup THEN "skip"
    ELSE IF t \in ENCRYPTED THEN "encrypted"
    ELSE "process"

\* lines 163-167: skip, report as encrypted, or enter do_file
ScanDispatch ==
    /\ pc = "scan_walk"
    /\ step = "dispatch"
    /\ LET f == FilesOf(cur)[fi]
           branch == ScanBranch(ftype, supported)
       IN  /\ log' = IF branch = "encrypted"
                     THEN Append(log, Rec("encrypted", "", ftype, <<cur, f>>, 0))
                     ELSE log
           /\ calls' = IF branch = "process"
                       THEN Append(calls, Call("do_file", <<cur, f>>))
                       ELSE calls
           /\ step' = IF branch = "process" THEN "do_file" ELSE "idle"
           /\ fi' = IF branch = "process" THEN fi ELSE fi + 1
    /\ UNCHANGED <<inputs, pc, status, handler, interrupted, globals, ghvars, todo, cur,
                   initvars, mcount, scanned, bar_blocksize, bar_count, cells,
                   ftype, supported>>

\* what do_file logs for a file: a finding when its content holds a secret
DoFileLog(d, f) ==
    IF File(f).planted THEN <<Rec("secret", "content", File(f).ftype, <<d, f>>, 0)>>
    ELSE <<>>

\* ScanProcessed with `scanned += 1` left out
ScanProcessedNoCount ==
    /\ pc = "scan_walk"
    /\ step = "do_file"
    /\ log' = log \o DoFileLog(cur, FilesOf(cur)[fi])
    /\ IF bar_count + 1 >= bar_blocksize
       THEN cells' = cells + 1 /\ bar_count' = 0
       ELSE bar_count' = bar_count + 1 /\ UNCHANGED cells
    /\ step' = "idle"
    /\ fi' = fi + 1
    /\ UNCHANGED <<inputs, pc, status, handler, interrupted, globals, ghvars, calls, todo,
                   cur, initvars, mcount, scanned, bar_blocksize, ftype, supported>>

\* lines 167-173: do_file returns, the counters and the progress bar move
ScanProcessed ==
    /\ pc = "scan_walk"
    /\ step = "do_file"
    /\ log' = log \o DoFileLog(cur, FilesOf(cur)[fi])
    /\ scanned' = scanned + 1
    /\ IF bar_count + 1 >= bar_blocksize
       THEN cells' = cells + 1 /\ bar_count' = 0
       ELSE bar_count' = bar_count + 1 /\ UNCHANGED cells
    /\ step' = "idle"
    /\ fi' = fi + 1
    /\ UNCHANGED <<inputs, pc, status, handler, interrupted, globals, ghvars, calls, todo,
                   cur, initvars, mcount, bar_blocksize, ftype, supported>>

\* lines 175-178
ScanReturn ==
    /\ pc = "scan_walk"
    /\ step = "idle"
    /\ WalkDone
    /\ log' = Append(log, Rec("comment", "%d files supported have been processed", "",
                              NoFile, scanned))
    /\ pc' = "count_secrets"
    /\ UNCHANGED <<inputs, status, handler, interrupted, globals, ghvars, calls, walkvars,
                   initvars, mcount, scanvars>>

---------------------------------------------------------------------------
(* count_secrets, signal_handler, main *)

\* logs.count('SECRET,'): the records log_secret wrote
CountIn(s, cat) == Cardinality({i \in 1..Len(s) : s[i].cat = cat})

\* lines 181-184
CountSecrets ==
    /\ pc = "count_secrets"
    /\ calls' = Append(calls, Call("count_secrets", NoFile))
    /\ log' = Append(log, Rec("comment", "%d files or strings flagged as secret", "",
                              NoFile, CountIn(log, "secret")))
    /\ pc' = "bye"
    /\ UNCHANGED <<inputs, status, handler, interrupted, globals, ghvars, walkvars,
                   initvars, mcount, scanvars>>

\* line 255
MainBye ==
    /\ pc = "bye"
    /\ Bye
    /\ UNCHANGED <<inputs, handler, interrupted, globals, ghvars, log, calls, walkvars,
                   initvars, mcount, scanvars>>

Terminated == pc \in {"exit", "returned", "crashed"}

\* lines 213-217: SIGINT delivered while the handler is installed
signal_handler ==
    /\ handler
    /\ ~Terminated
    /\ log' = Append(log, Comment("SIGINT received, quitting"))
    /\ interrupted' = TRUE
    /\ Bye
    /\ UNCHANGED <<inputs, handler, globals, ghvars, calls, walkvars, initvars, mcount,
                   scanvars>>

\* lines 222-238: usage errors return 1
MainArgs ==
    /\ pc = "main"
    /\ IF \/ args.nargs < 1
          \/ ~args.pathExists
          \/ (args.nargs > 1 /\ ~args.hashesExists)
       THEN pc' = "returned" /\ status' = 1
       ELSE pc' = "setup" /\ UNCHANGED status
    /\ UNCHANGED <<inputs, handler, interrupted, globals, ghvars, log, calls, walkvars,
                   initvars, mcount, scanvars>>

\* lines 250-251: whether get_hashes runs
AfterSetup(nargs) == IF nargs > 1 THEN "get_hashes" ELSE "init"

\* lines 240-251: the handler, the log file, the banner
MainSetup ==
    /\ pc = "setup"
    /\ handler' = TRUE
    /\ log' = Append(log, Comment("writing to %s"))
    /\ pc' = AfterSetup(args.nargs)
    /\ UNCHANGED <<inputs, status, interrupted, globals, ghvars, calls, walkvars,
                   initvars, mcount, scanvars>>

---------------------------------------------------------------------------
(* Specifications *)

Start(p) ==
    /\ pc = p
    /\ status = 0
    /\ handler = FALSE
    /\ interrupted = FALSE
    /\ HASHES = {} /\ HASH_KEY = 0 /\ HASH_REGEX = ""
    /\ fail = FALSE /\ hashes = <<>> /\ li = 1
    /\ log = <<>>
    /\ calls = <<>>
    /\ todo = <<>> /\ cur = 0 /\ fi = 1
    /\ total_size = SizeZero /\ count = 0
    /\ mcount = 0
    /\ scanned = 0 /\ bar_blocksize = 0 /\ bar_count = 0 /\ cells = 0
    /\ step = "idle" /\ ftype = "" /\ supported = FALSE

Hash(regex, line2, lines) == [regex |-> regex, line2 |-> line2, lines |-> lines]

\* the salt is 1; the stored verifier 2 is the one of password 1
GoodLine2 == <<1, 2>>

\* the whole program on a few hashes files and trees
MainArtifacts ==
    {Hash(r, l2, ls) : r \in {"a+", "("}, l2 \in {<<1>>, GoodLine2, <<1, 2, 0>>},
                       ls \in {<<>>, <<<<"0", "0">>, <<"0", "0">>>>,
                               <<<<"0", "0">>, <<"x">>>>}}

MainTrees ==
    {Flat(<<1, 2, 3>>), Flat(<<7>>),
     [n |-> 3, parent |-> <<0, 1, 2>>, name |-> <<"docs", ".git", "docs">>,
      files |-> <<(<<4>>), (<<6>>), (<<5>>)>>]}

Init ==
    /\ args \in [nargs : 0..2, pathExists : BOOLEAN, hashesExists : BOOLEAN]
    /\ artifact \in MainArtifacts
    /\ pwd \in Passwords
    /\ tree \in MainTrees
    /\ Start("main")

Next ==
    \/ MainArgs \/ MainSetup
    \/ GH_Start \/ GH_Verifier \/ GH_Regex \/ GH_Line \/ GH_Finish
    \/ InitStart \/ InitWalkDir \/ InitFile \/ InitReturn
    \/ ScanStart \/ ScanWalkDir \/ ScanFilename \/ ScanClassify \/ ScanDispatch
    \/ ScanProcessed \/ ScanReturn
    \/ CountSecrets \/ MainBye
    \/ signal_handler

Spec == Init /\ [][Next]_vars

\* get_hashes alone, on every hashes file within the bounds
HashArtifacts ==
    {Hash(r, GoodLine2, ls) : r \in {"a+", "("},
                              ls \in LineLists(Strings(2 * HASH_BYTES + 1), MaxLines)}
    \cup {Hash("a+", l2, <<>>) : l2 \in {<<1>>, <<1, 2, 0>>}}

InitHashes ==
    /\ args = [nargs |-> 2, pathExists |-> TRUE, hashesExists |-> TRUE]
    /\ artifact \in HashArtifacts
    /\ pwd \in Passwords
    /\ tree = Flat(<<>>)
    /\ Start("get_hashes")

NextHashes == GH_Start \/ GH_Verifier \/ GH_Regex \/ GH_Line \/ GH_Finish

SpecHashes == InitHashes /\ [][NextHashes]_vars

\* init then scan, as main chains them, on every tree within the bounds
WalkTrees == ShapeTrees(MaxDirs) \cup FlatTrees(MaxFiles) \cup BarTrees(MaxBarExtra)

InitWalk ==
    /\ args = [nargs |-> 1, pathExists |-> TRUE, hashesExists |-> FALSE]
    /\ artifact = Hash("", <<>>, <<>>)
    /\ pwd = 1
    /\ tree \in WalkTrees
    /\ Start("init")

NextWalk ==
    \/ InitStart \/ InitWalkDir \/ InitFile \/ InitReturn
    \/ ScanStart \/ ScanWalkDir \/ ScanFilename \/ ScanClassify \/ ScanDispatch
    \/ ScanProcessed \/ ScanReturn

SpecWalk == InitWalk /\ [][NextWalk]_vars

---------------------------------------------------------------------------
(* Vocabulary of the properties *)

HasMsg(m) == \E i \in 1..Len(log) : log[i].msg = m

LastMsg == IF log = <<>> THEN "" ELSE log[Len(log)].msg

CallsOf(fn) == {i \in 1..Len(calls) : calls[i].fn = fn}

\* the files a collaborator was called on
FidsOf(fn) == {calls[i].fid : i \in CallsOf(fn)}

TraversalCalls == CallsOf("init") \cup CallsOf("scan") \cup CallsOf("count_secrets")

\* get_hashes reached its abort of lines 93-95
GHRejected == pc = "exit" /\ ~interrupted /\ LastMsg = "hashes file failed to verify, aborting..."

GHDone == pc \in {"exit", "init"} /\ Len(artifact.line2) = 2

VerifierDiffers == artifact.line2[2] # key_derivation(pwd, artifact.line2[1])[2]

BadLine(k) ==
    \/ Len(artifact.lines[k]) # 2 * HASH_BYTES
    \/ ~IntParses(artifact.lines[k])

ReasonMsgs == {"verifier does not match", "invalid regex",
               "invalid hash length", "invalid hash value"}

\* where a reason belongs in the order verifier, regex, hash lines
Rank(r) ==
    IF r.msg = "verifier does not match" THEN 1
    ELSE IF r.msg = "invalid regex" THEN 2
    ELSE 2 + r.n

\* directory d, or a directory above it up to and including the scan
\* root, is named in SKIP
RECURSIVE UnderSkip(_)
UnderSkip(d) == d # 0 /\ (tree.name[d] \in SKIP \/ UnderSkip(tree.parent[d]))

\* the same, the scan root's own name left aside
RECURSIVE UnderSkipBelowRoot(_)
UnderSkipBelowRoot(d) ==
    d > 1 /\ (tree.name[d] \in SKIP \/ UnderSkipBelowRoot(tree.parent[d]))

\* every (directory, file) of the tree
AllFids ==
    UNION {{<<d, tree.files[d][k]>> : k \in 1..Len(tree.files[d])} : d \in 1..tree.n}

\* the files in directories no SKIP name cuts off from the scan root
VisibleFids == {fid \in AllFids : ~UnderSkipBelowRoot(fid[1])}

EncryptedFile(f) == File(f).supported /\ File(f).ftype \in ENCRYPTED
PlainFile(f) == File(f).supported /\ File(f).ftype \notin ENCRYPTED

\* the records scan and do_file wrote about a file (init's are "error")
ScanRecords(fid) == {i \in 1..Len(log) : log[i].fid = fid /\ log[i].cat # "error"}

IsFilenameFinding(r) == r.cat = "secret" /\ r.msg = "filename"

ScanReturned == pc = "count_secrets"

---------------------------------------------------------------------------
(* C1 *)

\* C1 (as claimed): when get_hashes aborts the run because of any recorded
\* failure, HASHES, HASH_KEY and HASH_REGEX all still hold their initial
\* values (empty set, 0, empty string).
C1_AllOrNothing ==
    GHRejected => (HASHES = {} /\ HASH_KEY = 0 /\ HASH_REGEX = "")

---------------------------------------------------------------------------
(* C2 *)

\* C2: once the salt/verifier line has parsed, when get_hashes is over the
\* log holds "verifier does not match" iff the computed verifier differs
\* from the stored one, "invalid regex" iff the regex does not compile, and
\* at least one reason for every hash line of the wrong length or that does
\* not parse as a base-16 integer; the reasons stand in the order verifier,
\* regex, hash lines; and a wrong verifier or an invalid regex alone ends
\* in the abort.
C2_AllReasonsReported ==
    GHDone =>
        /\ HasMsg("verifier does not match") <=> VerifierDiffers
        /\ HasMsg("invalid regex") <=> ~Compiles(artifact.regex)
        /\ \A k \in 1..Len(artifact.lines) :
              BadLine(k) =>
                  \E i \in 1..Len(log) :
                      /\ log[i].n = k
                      /\ log[i].msg \in {"invalid hash length", "invalid hash value"}
        /\ \A i, j \in 1..Len(log) :
              (i < j /\ log[i].msg \in ReasonMsgs /\ log[j].msg \in ReasonMsgs)
                  => Rank(log[i]) <= Rank(log[j])
        /\ (VerifierDiffers \/ ~Compiles(artifact.regex)) => GHRejected

\* a wrong password, an invalid regex and two malformed hash lines, all
\* four reported before the abort
C2_Witness ==
    /\ GHRejected
    /\ HasMsg("verifier does not match")
    /\ HasMsg("invalid regex")
    /\ \E i, j \in 1..Len(log) :
          /\ log[i].msg = "invalid hash length" /\ log[i].n = 1
          /\ log[j].msg = "invalid hash value" /\ log[j].n = 2

---------------------------------------------------------------------------
(* C3 *)

GHRunning == pc \in {"get_hashes", "gh_verifier", "gh_regex", "gh_lines"}

C3_Order ==
    /\ Cardinality(CallsOf("get_hashes")) <= 1
    /\ CallsOf("get_hashes") # {} => args.nargs > 1
    /\ \A i \in CallsOf("get_hashes") : \A j \in TraversalCalls : i < j
    /\ GHRunning => TraversalCalls = {}
    /\ (fail \/ HasMsg("failed to extract verifier and salt")) => TraversalCalls = {}
    /\ (CallsOf("init") # {} /\ args.nargs > 1) => CallsOf("get_hashes") # {}

\* C3: get_hashes runs at most once, only when a hashes file was given, and
\* is over before init, scan and count_secrets begin; when it rejects the
\* file or cannot parse the salt/verifier line none of the three ever runs;
\* and no step taken after init was entered changes HASHES, HASH_KEY or
\* HASH_REGEX.
C3_ActivationBeforeTraversal ==
    /\ []C3_Order
    /\ [][CallsOf("init") # {} => UNCHANGED globals]_vars

\* a verified hashes file is in force while scan walks the tree
C3_Witness ==
    /\ pc = "scan_walk"
    /\ CallsOf("get_hashes") # {}
    /\ HASHES # {}
    /\ HASH_KEY # 0
    /\ FidsOf("do_file") # {}

---------------------------------------------------------------------------
(* C4 *)

\* C4 (as claimed): for every file of an encrypted supported type, do_file
\* is never called on it and the only record scan writes about it is the
\* encrypted notice, whatever its name.
C4_OnlyEncryptedNotice ==
    \A fid \in AllFids :
        EncryptedFile(fid[2]) =>
            /\ fid \notin FidsOf("do_file")
            /\ \A i \in ScanRecords(fid) : log[i].cat = "encrypted"

\* C4 (amended): for every file of an encrypted supported type, do_file is
\* never called on it and no content finding is written; the records scan
\* writes about it are one encrypted notice and, before it, one filename
\* finding exactly when INFILENAME matches its name.
C4_EncryptedNeverScanned ==
    \A fid \in AllFids :
        EncryptedFile(fid[2]) =>
            /\ fid \notin FidsOf("do_file")
            /\ \A i \in ScanRecords(fid) :
                  \/ log[i].cat = "encrypted"
                  \/ /\ IsFilenameFinding(log[i])
                     /\ File(fid[2]).infile # ""
                     /\ \A j \in ScanRecords(fid) : j >= i
            /\ (ScanReturned /\ fid \in FidsOf("search")) =>
                  /\ Cardinality({i \in ScanRecords(fid) : log[i].cat = "encrypted"}) = 1
                  /\ Cardinality({i \in ScanRecords(fid) : IsFilenameFinding(log[i])})
                        = (IF File(fid[2]).infile # "" THEN 1 ELSE 0)

\* scan is over; an encrypted file holding a planted secret has its notice
\* and nothing else, another one has a filename finding and its notice
C4_Witness ==
    /\ ScanReturned
    /\ \E fid \in FidsOf("type_file") :
          /\ EncryptedFile(fid[2]) /\ File(fid[2]).planted
          /\ Cardinality(ScanRecords(fid)) = 1
    /\ \E fid \in FidsOf("type_file") :
          /\ EncryptedFile(fid[2]) /\ File(fid[2]).infile # ""
          /\ Cardinality(ScanRecords(fid)) = 2

---------------------------------------------------------------------------
(* C5 *)

WalkCalls == {"getsize", "search", "type_file", "do_file"}

---------------------------------------------------------------------------
(* C6 *)

\* C6 (as claimed): for every file the classifier reports as not
\* supported, scan writes no log record of any category about it and never
\* calls do_file on it.
C6_UnsupportedSilent ==
    \A fid \in AllFids :
        ~File(fid[2]).supported =>
            /\ ScanRecords(fid) = {}
            /\ fid \notin FidsOf("do_file")

C6_UnsupportedRecords ==
    \A fid \in AllFids :
        ~File(fid[2]).supported =>
            /\ fid \notin FidsOf("do_file")
            /\ \A i \in ScanRecords(fid) :
                  IsFilenameFinding(log[i]) /\ File(fid[2]).infile # ""
            /\ (ScanReturned /\ fid \in FidsOf("search")) =>
                  Cardinality(ScanRecords(fid)) = (IF File(fid[2]).infile # "" THEN 1 ELSE 0)

\* C6 (amended): for every file the classifier reports as not supported,
\* scan never calls do_file on it, writes about it nothing but the filename
\* finding of a name INFILENAME matches (written before the file is
\* classified), and the step that skips it leaves the log, the processed
\* count and the progress bar as they are.
C6_UnsupportedSkipped ==
    /\ []C6_UnsupportedRecords
    /\ [][(pc = "scan_walk" /\ step = "dispatch" /\ ~supported)
             => UNCHANGED <<log, calls, scanned, bar_count, cells>>]_vars

\* scan is over; an unsupported file left no record, another one only its
\* filename finding; neither was processed
C6_Witness ==
    /\ ScanReturned
    /\ scanned = 0
    /\ cells = 0
    /\ \E fid \in FidsOf("type_file") :
          ~File(fid[2]).supported /\ ScanRecords(fid) = {}
    /\ \E fid \in FidsOf("type_file") :
          ~File(fid[2]).supported /\ Cardinality(ScanRecords(fid)) = 1

---------------------------------------------------------------------------
(* C7 *)

C7_Counts ==
    /\ scanned + (IF step = "do_file" THEN 1 ELSE 0) = Cardinality(CallsOf("do_file"))
    /\ scanned <= Cardinality(CallsOf("search"))
    /\ ScanReturned =>
          /\ scanned = Cardinality({fid \in FidsOf("search") : PlainFile(fid[2])})
          /\ log[Len(log)].n = scanned

\* C7: the value scan returns is the number of enumerated files that are
\* supported and not of an encrypted type, which is the number of do_file
\* calls; it starts at 0, moves only by +1, once per returned do_file, and
\* never exceeds the number of files enumerated.
C7_ScannedCount ==
    /\ []C7_Counts
    /\ [][scanned' = scanned \/ scanned' = scanned + 1]_vars

\* readme.txt (unsupported), id_rsa (supported) and secrets.gpg
\* (encrypted): 3 files counted, 1 processed, one filename finding, one
\* encrypted notice, one content scan with its finding
C7_Witness ==
    /\ ScanReturned
    /\ tree = Flat(<<1, 2, 3>>)
    /\ mcount = 3
    /\ scanned = 1
    /\ FidsOf("do_file") = {<<1, 2>>}
    /\ Cardinality({i \in 1..Len(log) : IsFilenameFinding(log[i])}) = 1
    /\ CountIn(log, "encrypted") = 1
    /\ CountIn(log, "secret") = 2

---------------------------------------------------------------------------
(* C8 *)

\* C8 (as claimed): init returns the number of files found in non-excluded
\* directories whatever the byte total is; a file whose size lookup raises
\* OSError is logged as an error, is counted, and adds nothing to the total.
C8_InitReturnsCount ==
    /\ CountIn(log, "error")
          = Cardinality({i \in CallsOf("getsize") : File(calls[i].fid[2]).err})
    /\ pc = "scan" =>
          /\ mcount = Cardinality(VisibleFids)
          /\ FidsOf("getsize") = VisibleFids

---------------------------------------------------------------------------
(* C9 *)

\* C9 (as claimed): an interrupt is acted on only between two files, never
\* while a file is being classified or scanned; the SIGINT comment is then
\* the last log record and the exit status is not 0.
C9_InterruptAtFileBoundary ==
    (interrupted /\ pc = "exit") =>
        /\ step = "idle"
        /\ LastMsg = "SIGINT received, quitting"
        /\ status # 0

---------------------------------------------------------------------------
(* C10 *)

\* C10 (as claimed): when scan is given the number of files it enumerates,
\* the block size is the integer quotient count/32 and never more than
\* bar_width = 32 progress cells are written.
C10_BarWithinWidth ==
    (pc \in {"scan_walk", "count_secrets"} /\ mcount = Cardinality(VisibleFids)) =>
        /\ bar_blocksize = mcount \div bar_width
        /\ cells <= bar_width

====
